---- MODULE Spec2Model ----
(***************************************************************************)
(* Model of backend/app_new17.py: the detection aggregation and streaming  *)
(* pipeline of the smart-checkout backend.                                 *)
(*                                                                         *)
(* Threads of the program and their model:                                 *)
(*   - the camera thread running pre_callback once per frame,              *)
(*   - the test-mode thread running add_test_detections,                   *)
(*   - the thread running emit_detections (aggregation + broadcast),       *)
(*   - the Socket.IO handlers handle_start_detection/handle_stop_detection,*)
(*   - one generate_frames generator per /video_feed viewer,               *)
(*   - the constructor of Detection.                                       *)
(* Every action is one step that the interpreter executes without another  *)
(* thread of the program observing an intermediate state.  A local         *)
(* variable of emit_detections or pre_callback is cleared at the step      *)
(* after which the code no longer reads it.  The variables last_replace,   *)
(* observed, stale and raised record history and are read by no action.    *)
(*                                                                         *)
(* Time is counted in whole seconds; time.time() is taken to be            *)
(* non-decreasing.                                                         *)
(***************************************************************************)
EXTENDS Integers, Sequences, FiniteSets, TLC

\* ------------------------------------------------------------ bounds
\* Largest value time.time() returns, in seconds.
MaxTime == 4
\* Number of frames the camera delivers in the aggregation specification.
MaxAggFrames == 1
\* Number of frames the camera delivers in the streaming specification.
MaxFrames == 11

\* ------------------------------------------------------------ program constants
\* frame_queue = Queue(maxsize=10), line 17
QueueMaxSize == 10
\* weight_update_threshold = 2.0 (seconds), line 246
weight_update_threshold == 2

\* The content of the labels file, as get_labels() returns it.
Labels == <<"apple", "banana">>

\* The detection lists the inference source delivers (a detection is
\* modelled by its category): none, one label, the same label twice, two
\* labels in either order, a category past the end of the labels, alone and
\* before a valid one, and a negative category.
DetectionLists ==
    { <<>>, <<0>>, <<1>>, <<0, 0>>, <<0, 1>>, <<1, 0>>, <<2>>, <<2, 0>>, <<-1>> }

\* The detection lists delivered in the streaming specification: one that
\* is drawn and one whose drawing raises.
StreamDetectionLists == { <<0>>, <<2>> }

LabelSet == {Labels[i] : i \in 1..Len(Labels)}

\* products.json contents considered: a dict from product name to a dict
\* that may hold "price".  "apple" priced and "banana" missing; "apple"
\* without a price and "banana" priced; both priced.
ProductCatalogs ==
    { [l \in {"apple"} |-> [price |-> 50]],
      [l \in LabelSet |-> IF l = "apple" THEN [unit |-> "kg"] ELSE [price |-> 30]],
      [l \in LabelSet |-> IF l = "apple" THEN [price |-> 50] ELSE [price |-> 30]] }

DefaultCatalog == [l \in {"apple"} |-> [price |-> 50]]

NoLabel == "NoLabel"

\* A coordinate is a rational number written in quarters: q stands for q/4.
\* The coordinates passed to Detection: -0.5, 0, 0.5, 1 and 1.5 in any
\* combination, and the coords of add_test_detections, [100, 100, 200, 150].
CoordValues == {-2, 0, 2, 4, 6}
TestCoords == <<400, 400, 800, 600>>
CoordInputs ==
    {<<a, b, c, d>> : a \in CoordValues, b \in CoordValues,
                      c \in CoordValues, d \in CoordValues}
        \cup {TestCoords}
\* The values convert_inference_coords may return, in quarters: -5, 10.75,
\* 500 and 700.
ConvertedValues == {-20, 43, 2000, 2800}
ConvertedBoxes ==
    {<<a, b, c, d>> : a \in ConvertedValues, b \in ConvertedValues,
                      c \in ConvertedValues, d \in ConvertedValues}
\* The /video_feed viewers, each running its own generate_frames generator.
Viewers == {1, 2}

VARIABLES
    latest_detections,    \* global, line 15
    detections_lock,      \* holder of detections_lock, line 16
    frame_queue,          \* global Queue, line 17
    PRODUCTS,             \* global, lines 18 and 346
    detection_active,     \* global, line 21
    detected_ingredients, \* global, line 23: the dict the name is bound to,
                          \* its items in insertion order
    \* emit_detections thread: position, the exception that ended it, locals
    emit_pc, emit_error, current_time, current_detections, det_idx, label,
    data_list,
    tick_emits,           \* detection_update messages emitted in this tick
    \* handle_start_detection: position
    start_pc,
    \* pre_callback: position ("raised": the last call ended with an
    \* exception), local, frames delivered
    pre_pc, pre_detections, frame_no,
    \* add_test_detections: position, local
    test_pc, test_category,
    \* generate_frames, one per viewer: position, local
    viewer_pc, viewer_frame,
    last_replace,         \* the list the last completed replace wrote
    observed,             \* the labels of the detections whose processing
                          \* (lines 257-267) completed while detection_active
                          \* was True, since the last reset of line 228
    stale,                \* while handle_start_detection is between lines
                          \* 227 and 228: the labels counts held at line 227
    raised,               \* the labels whose quantity the loop of the
                          \* current tick has set or raised, since the last
                          \* reset of line 228
    \* Detection.__init__: position, the argument coords, self.box
    det_pc, det_coords, det_box

sessionVars == <<detection_active, detected_ingredients>>
emitVars == <<emit_pc, emit_error, current_time, current_detections, det_idx,
              label, data_list, tick_emits>>
aggVars == <<sessionVars, emitVars, start_pc, observed, stale, raised>>
storeVars == <<latest_detections, detections_lock, last_replace>>
preVars == <<pre_pc, pre_detections, frame_no>>
testVars == <<test_pc, test_category>>
streamVars == <<frame_queue, viewer_pc, viewer_frame>>
boxVars == <<det_pc, det_coords, det_box>>
vars == <<aggVars, storeVars, preVars, testVars, streamVars, PRODUCTS, boxVars>>

\* ------------------------------------------------------------ helpers
\* labels[int(category)]: Python list indexing, negative indices count from
\* the end, anything else raises IndexError.
IndexInRange(category) ==
    /\ category < Len(Labels)
    /\ category >= 0 - Len(Labels)

LabelAt(category) ==
    IF category >= 0 THEN Labels[category + 1]
    ELSE Labels[Len(Labels) + category + 1]

\* `label in dict`
HasKey(dict, l) == \E i \in 1..Len(dict) : dict[i].name = l

\* set(dict.keys())
Keys(dict) == {dict[i].name : i \in 1..Len(dict)}

\* dict[label]
Entry(dict, l) == dict[CHOOSE i \in 1..Len(dict) : dict[i].name = l]

\* Mutant of DictStore: storing the value of one key also stamps the
\* last_update of every other key.
DictStoreStampsAll(dict, l, value) ==
    IF HasKey(dict, l)
    THEN [i \in 1..Len(dict) |->
            IF dict[i].name = l THEN value
            ELSE [dict[i] EXCEPT !.last_update = value.last_update]]
    ELSE Append([i \in 1..Len(dict) |->
                    [dict[i] EXCEPT !.last_update = value.last_update]],
                value)

\* dict[l] = value: overwrites the value of a key present, appends a new key.
DictStore(dict, l, value) ==
    IF HasKey(dict, l)
    THEN [i \in 1..Len(dict) |-> IF dict[i].name = l THEN value ELSE dict[i]]
    ELSE Append(dict, value)

\* Mutant of NewEntry: a label first seen starts at quantity 0.
NewEntryZero(l, now) == [name |-> l, quantity |-> 0, last_update |-> now]

\* The value stored for a label first seen, lines 258-261.
NewEntry(l, now) == [name |-> l, quantity |-> 1, last_update |-> now]

\* Mutant of ThresholdPassed: the threshold itself does not count.
ThresholdPassedStrict(now, last) == now - last > weight_update_threshold

\* The test of line 264.
ThresholdPassed(now, last) == now - last >= weight_update_threshold

\* Mutant of Incremented: the increment leaves last_update as it was.
IncrementedKeepsTime(e, now) == [e EXCEPT !.quantity = e.quantity + 1]

\* d["quantity"] += 1; d["last_update"] = current_time, lines 266-267
Incremented(e, now) ==
    [e EXCEPT !.quantity = e.quantity + 1, !.last_update = now]

\* Mutant of PriceOf: a product without a price is priced 1.
PriceOfDefaultOne(products, l) ==
    LET product_info == IF l \in DOMAIN products THEN products[l] ELSE <<>>
    IN IF "price" \in DOMAIN product_info THEN product_info.price ELSE 1

\* PRODUCTS.get(label, {}).get("price", 0), lines 272-273 and 284-285.
PriceOf(products, l) ==
    LET product_info == IF l \in DOMAIN products THEN products[l] ELSE <<>>
    IN IF "price" \in DOMAIN product_info THEN product_info.price ELSE 0

\* The loop of lines 271-278 over detected_ingredients.items().
RECURSIVE DataListActive(_, _)
DataListActive(dict, products) ==
    IF dict = <<>> THEN <<>>
    ELSE <<[name |-> Head(dict).name,
            quantity |-> Head(dict).quantity,
            price |-> PriceOf(products, Head(dict).name)]>>
         \o DataListActive(Tail(dict), products)

\* The loop of lines 283-290 over detected_ingredients.items().
RECURSIVE DataListInactive(_, _)
DataListInactive(dict, products) ==
    IF dict = <<>> THEN <<>>
    ELSE <<[name |-> Head(dict).name,
            quantity |-> Head(dict).quantity,
            price |-> PriceOf(products, Head(dict).name)]>>
         \o DataListInactive(Tail(dict), products)

\* list(latest_detections), line 251
ListCopy(list) == list

\* Mutant of Replace: the new detections are added to the stored list.
ReplaceExtends(old, new) == old \o new

\* latest_detections = detections, lines 69 and 308: the name is bound to
\* the new list, whatever the old one held.
Replace(old, new) == new

\* Drawing, lines 74-86: labels[int(detection.category)] for every detection.
DrawRaises(detections) ==
    \E i \in 1..Len(detections) : ~IndexInRange(detections[i])

\* Mutant of QueueFull: off by one.
QueueFullLate(queue) == Len(queue) > QueueMaxSize

\* frame_queue.full(), line 87
QueueFull(queue) == Len(queue) >= QueueMaxSize

\* Queue.put(item) of a Queue(maxsize=10) waits while the queue holds
\* maxsize items (line 88); Queue.get() waits while it is empty (line 108).
PutWaits(queue) == Len(queue) >= QueueMaxSize
GetWaits(queue) == queue = <<>>

\* Mutant of QueueAfterGet: get returns the oldest item and leaves it queued.
QueueAfterGetKeeps(queue) == queue

\* Queue.get(), line 108: returns the oldest item and removes it.
QueueGetItem(queue) == Head(queue)
QueueAfterGet(queue) == Tail(queue)

\* 640 if i % 2 == 0 else 480, i the index enumerate() gives (from 0)
FrameLimit(i) == IF i % 2 = 0 THEN 640 ELSE 480

\* int(x) of x = q/4: truncation toward zero
IntOfQuarters(q) == IF q >= 0 THEN q \div 4 ELSE 0 - ((0 - q) \div 4)

\* Python's min and max of two numbers
Min(a, b) == IF b < a THEN b ELSE a
Max(a, b) == IF b > a THEN b ELSE a

\* line 38: [int(max(0, min(val, 640 if i % 2 == 0 else 480))) ...]
ClampedBox(converted) ==
    [k \in 1..Len(converted) |->
        IntOfQuarters(Max(0, Min(converted[k], 4 * FrameLimit(k - 1))))]

\* line 42: [int(val * (640 if i % 2 == 0 else 480)) ...]
FallbackBox(coords) ==
    [k \in 1..Len(coords) |-> IntOfQuarters(coords[k] * FrameLimit(k - 1))]

\* line 313: category = (category + 1) % (max_category + 1)
NextTestCategory(category) == (category + 1) % Len(Labels)

\* The labels processed while Active, after a step of lines 257-267 that
\* finished (`done`) the processing of the detection of `label`.
Processed(done) ==
    IF done /\ detection_active THEN observed \cup {label} ELSE observed

\* ------------------------------------------------------------ initial state
InitCommon ==
    /\ latest_detections = <<>>
    /\ detections_lock = "free"
    /\ frame_queue = <<>>
    /\ detection_active = FALSE
    /\ detected_ingredients = <<>>
    /\ emit_pc = "time"
    /\ emit_error = "none"
    /\ current_time = 0
    /\ current_detections = <<>>
    /\ det_idx = 0
    /\ label = NoLabel
    /\ data_list = <<>>
    /\ tick_emits = 0
    /\ start_pc = "idle"
    /\ pre_pc = "idle"
    /\ pre_detections = <<>>
    /\ frame_no = 0
    /\ test_pc = "lock"
    /\ test_category = 0
    /\ viewer_pc = [v \in Viewers |-> "poll"]
    /\ viewer_frame = [v \in Viewers |-> 0]
    /\ last_replace = <<>>
    /\ observed = {}
    /\ stale = {}
    /\ raised = {}
    /\ det_pc = "idle"
    /\ det_coords = <<>>
    /\ det_box = <<>>

Init ==
    /\ InitCommon
    /\ PRODUCTS = DefaultCatalog

\* ------------------------------------------------------------ session handlers
\* handle_start_detection, line 227: detection_active = True
StartSetActive ==
    /\ start_pc = "idle"
    /\ detection_active' = TRUE
    /\ start_pc' = "reset"
    /\ UNCHANGED <<detected_ingredients, emitVars>>
    /\ UNCHANGED <<storeVars, preVars, testVars, streamVars, PRODUCTS, boxVars>>
    /\ stale' = Keys(detected_ingredients)
    /\ UNCHANGED <<observed, raised>>

\* handle_start_detection, line 228: detected_ingredients = {}
\* (the name is bound to a new, empty dict)
StartReset ==
    /\ start_pc = "reset"
    /\ detected_ingredients' = <<>>
    /\ start_pc' = "idle"
    /\ UNCHANGED <<detection_active, emitVars>>
    /\ UNCHANGED <<storeVars, preVars, testVars, streamVars, PRODUCTS, boxVars>>
    /\ observed' = {}
    /\ stale' = {}
    /\ raised' = {}

\* handle_stop_detection, line 235: detection_active = False
StopDetection ==
    /\ detection_active' = FALSE
    /\ UNCHANGED <<detected_ingredients, emitVars, start_pc>>
    /\ UNCHANGED <<storeVars, preVars, testVars, streamVars, PRODUCTS, boxVars>>
    /\ UNCHANGED <<observed, stale, raised>>

\* ------------------------------------------------------------ emit_detections
\* lines 248-250: current_time = time.time(); with detections_lock (acquire)
EmitReadTime ==
    /\ emit_pc = "time"
    /\ detections_lock = "free"
    /\ \E now \in current_time..MaxTime : current_time' = now
    /\ detections_lock' = "emit"
    /\ emit_pc' = "copy"
    /\ UNCHANGED <<emit_error, current_detections, det_idx, label, data_list,
                   tick_emits>>
    /\ UNCHANGED <<sessionVars, start_pc>>
    /\ UNCHANGED <<latest_detections, last_replace>>
    /\ UNCHANGED <<preVars, testVars, streamVars, PRODUCTS, boxVars>>
    /\ UNCHANGED <<observed, stale, raised>>

\* line 251: current_detections = list(latest_detections), and the release
EmitCopy ==
    /\ emit_pc = "copy"
    /\ current_detections' = ListCopy(latest_detections)
    /\ detections_lock' = "free"
    /\ emit_pc' = "active"
    /\ UNCHANGED <<emit_error, current_time, det_idx, label, data_list,
                   tick_emits>>
    /\ UNCHANGED <<sessionVars, start_pc>>
    /\ UNCHANGED <<latest_detections, last_replace>>
    /\ UNCHANGED <<preVars, testVars, streamVars, PRODUCTS, boxVars>>
    /\ UNCHANGED <<observed, stale, raised>>

\* line 253: if detection_active (the copy is not read in the else branch)
EmitCheckActive ==
    /\ emit_pc = "active"
    /\ IF detection_active
       THEN /\ emit_pc' = "for"
            /\ UNCHANGED current_detections
       ELSE /\ emit_pc' = "build_inactive"
            /\ current_detections' = <<>>
    /\ UNCHANGED <<emit_error, current_time, det_idx, label, data_list,
                   tick_emits>>
    /\ UNCHANGED <<sessionVars, start_pc>>
    /\ UNCHANGED <<storeVars, preVars, testVars, streamVars, PRODUCTS, boxVars>>
    /\ UNCHANGED <<observed, stale, raised>>

\* lines 255-256: the next detection of the copy and its label;
\* get_labels()[int(det.category)] raises IndexError out of the thread
EmitFor ==
    /\ emit_pc = "for"
    /\ IF det_idx = Len(current_detections)
       THEN /\ emit_pc' = "build_active"
            /\ det_idx' = 0
            /\ label' = NoLabel
            /\ current_detections' = <<>>
            /\ UNCHANGED emit_error
       ELSE /\ det_idx' = det_idx + 1
            /\ UNCHANGED current_detections
            /\ IF IndexInRange(current_detections[det_idx + 1])
               THEN /\ label' = LabelAt(current_detections[det_idx + 1])
                    /\ emit_pc' = "member"
                    /\ UNCHANGED emit_error
               ELSE /\ emit_error' = "IndexError"
                    /\ emit_pc' = "dead"
                    /\ UNCHANGED label
    /\ UNCHANGED <<current_time, data_list, tick_emits>>
    /\ UNCHANGED <<sessionVars, start_pc>>
    /\ UNCHANGED <<storeVars, preVars, testVars, streamVars, PRODUCTS, boxVars>>
    /\ raised' = IF emit_pc' = "build_active" THEN {} ELSE raised
    /\ UNCHANGED <<observed, stale>>

\* line 257: if label not in detected_ingredients
EmitMember ==
    /\ emit_pc = "member"
    /\ emit_pc' = IF HasKey(detected_ingredients, label) THEN "compare" ELSE "insert"
    /\ UNCHANGED <<emit_error, current_time, current_detections, det_idx,
                   label, data_list, tick_emits>>
    /\ UNCHANGED <<sessionVars, start_pc>>
    /\ UNCHANGED <<storeVars, preVars, testVars, streamVars, PRODUCTS, boxVars>>
    /\ UNCHANGED <<observed, stale, raised>>

\* lines 258-261: detected_ingredients[label] = {"quantity": 1, ...}
EmitInsert ==
    /\ emit_pc = "insert"
    /\ detected_ingredients' =
           DictStore(detected_ingredients, label, NewEntry(label, current_time))
    /\ emit_pc' = "for"
    /\ UNCHANGED <<emit_error, current_time, current_detections, det_idx,
                   label, data_list, tick_emits>>
    /\ UNCHANGED <<detection_active, start_pc>>
    /\ UNCHANGED <<storeVars, preVars, testVars, streamVars, PRODUCTS, boxVars>>
    /\ observed' = Processed(TRUE)
    /\ raised' = raised \cup {label}
    /\ UNCHANGED stale

\* line 264: if current_time - detected_ingredients[label]["last_update"] >= ...
\* the subscript raises KeyError out of the thread when the name is bound to
\* a dict without the label
EmitCompare ==
    /\ emit_pc = "compare"
    /\ IF ~HasKey(detected_ingredients, label)
       THEN /\ emit_error' = "KeyError"
            /\ emit_pc' = "dead"
       ELSE /\ emit_pc' =
                  IF ThresholdPassed(current_time,
                                     Entry(detected_ingredients, label).last_update)
                  THEN "incr" ELSE "for"
            /\ UNCHANGED emit_error
    /\ UNCHANGED <<current_time, current_detections, det_idx, label,
                   data_list, tick_emits>>
    /\ UNCHANGED <<sessionVars, start_pc>>
    /\ UNCHANGED <<storeVars, preVars, testVars, streamVars, PRODUCTS, boxVars>>
    /\ observed' = Processed(emit_pc' = "for")
    /\ UNCHANGED <<stale, raised>>

\* lines 265-267: d = detected_ingredients[label] (KeyError when the name is
\* bound to a dict without the label); d["quantity"] += 1;
\* d["last_update"] = current_time.  The two writes go to the value object d
\* and nothing else reads it before line 271, so they are one step with the
\* subscript.
EmitIncrement ==
    /\ emit_pc = "incr"
    /\ IF ~HasKey(detected_ingredients, label)
       THEN /\ emit_error' = "KeyError"
            /\ emit_pc' = "dead"
            /\ UNCHANGED detected_ingredients
       ELSE /\ detected_ingredients' =
                  DictStore(detected_ingredients, label,
                            Incremented(Entry(detected_ingredients, label),
                                        current_time))
            /\ emit_pc' = "for"
            /\ UNCHANGED emit_error
    /\ UNCHANGED <<current_time, current_detections, det_idx, label,
                   data_list, tick_emits>>
    /\ UNCHANGED <<detection_active, start_pc>>
    /\ UNCHANGED <<storeVars, preVars, testVars, streamVars, PRODUCTS, boxVars>>
    /\ observed' = Processed(emit_pc' = "for")
    /\ raised' = IF emit_pc' = "for" THEN raised \cup {label} ELSE raised
    /\ UNCHANGED stale

\* lines 270-278: data_list of the active branch
EmitBuildActive ==
    /\ emit_pc = "build_active"
    /\ data_list' = DataListActive(detected_ingredients, PRODUCTS)
    /\ emit_pc' = "send"
    /\ UNCHANGED <<emit_error, current_time, current_detections, det_idx,
                   label, tick_emits>>
    /\ UNCHANGED <<sessionVars, start_pc>>
    /\ UNCHANGED <<storeVars, preVars, testVars, streamVars, PRODUCTS, boxVars>>
    /\ UNCHANGED <<observed, stale, raised>>

\* lines 282-290: data_list of the inactive branch
EmitBuildInactive ==
    /\ emit_pc = "build_inactive"
    /\ data_list' = DataListInactive(detected_ingredients, PRODUCTS)
    /\ emit_pc' = "send"
    /\ UNCHANGED <<emit_error, current_time, current_detections, det_idx,
                   label, tick_emits>>
    /\ UNCHANGED <<sessionVars, start_pc>>
    /\ UNCHANGED <<storeVars, preVars, testVars, streamVars, PRODUCTS, boxVars>>
    /\ UNCHANGED <<observed, stale, raised>>

\* lines 279 and 291: socketio.emit('detection_update', {"products": data_list});
\* at "sleep" data_list is the payload of the message just emitted
EmitSend ==
    /\ emit_pc = "send"
    /\ tick_emits' = tick_emits + 1
    /\ emit_pc' = "sleep"
    /\ UNCHANGED <<emit_error, current_time, current_detections, det_idx,
                   label, data_list>>
    /\ UNCHANGED <<sessionVars, start_pc>>
    /\ UNCHANGED <<storeVars, preVars, testVars, streamVars, PRODUCTS, boxVars>>
    /\ UNCHANGED <<observed, stale, raised>>

\* line 292: time.sleep(0.1), then the next tick
EmitSleep ==
    /\ emit_pc = "sleep"
    /\ emit_pc' = "time"
    /\ data_list' = <<>>
    /\ tick_emits' = 0
    /\ UNCHANGED <<emit_error, current_time, current_detections, det_idx, label>>
    /\ UNCHANGED <<sessionVars, start_pc>>
    /\ UNCHANGED <<storeVars, preVars, testVars, streamVars, PRODUCTS, boxVars>>
    /\ UNCHANGED <<observed, stale, raised>>

\* ------------------------------------------------------------ pre_callback
\* lines 47-67: the camera calls pre_callback with a frame; the detections
\* above the threshold are collected; with detections_lock (acquire)
PreCallbackBegin(limit, inputs) ==
    /\ pre_pc \in {"idle", "raised"}
    /\ frame_no < limit
    /\ detections_lock = "free"
    /\ \E detections \in inputs : pre_detections' = detections
    /\ frame_no' = frame_no + 1
    /\ detections_lock' = "pre"
    /\ pre_pc' = "replace"
    /\ UNCHANGED <<latest_detections, last_replace>>
    /\ UNCHANGED <<aggVars, testVars, streamVars, PRODUCTS, boxVars>>

PreCallback == PreCallbackBegin(MaxAggFrames, DetectionLists)

\* line 69: latest_detections = detections, and the release
PreReplace ==
    /\ pre_pc = "replace"
    /\ latest_detections' = Replace(latest_detections, pre_detections)
    /\ last_replace' = pre_detections
    /\ detections_lock' = "free"
    /\ pre_pc' = "draw"
    /\ UNCHANGED <<pre_detections, frame_no>>
    /\ UNCHANGED <<aggVars, testVars, streamVars, PRODUCTS, boxVars>>

\* lines 72-87: the detections are drawn on the frame, where an IndexError
\* of the label lookup leaves the callback; if not frame_queue.full().
\* `detections` is not read afterwards.
PreDraw ==
    /\ pre_pc = "draw"
    /\ pre_pc' = IF DrawRaises(pre_detections) THEN "raised"
                 ELSE IF QueueFull(frame_queue) THEN "idle"
                 ELSE "put"
    /\ pre_detections' = <<>>
    /\ UNCHANGED frame_no
    /\ UNCHANGED <<aggVars, storeVars, testVars, streamVars, PRODUCTS, boxVars>>

\* line 88: frame_queue.put(m.array.copy()); put waits while the queue is full
PrePut ==
    /\ pre_pc = "put"
    /\ ~PutWaits(frame_queue)
    /\ frame_queue' = Append(frame_queue, frame_no)
    /\ pre_pc' = "idle"
    /\ UNCHANGED <<pre_detections, frame_no>>
    /\ UNCHANGED <<viewer_pc, viewer_frame>>
    /\ UNCHANGED <<aggVars, storeVars, testVars, PRODUCTS, boxVars>>

\* ------------------------------------------------------------ add_test_detections
\* line 304: with detections_lock (acquire)
TestLock ==
    /\ test_pc = "lock"
    /\ detections_lock = "free"
    /\ detections_lock' = "test"
    /\ test_pc' = "replace"
    /\ UNCHANGED <<latest_detections, last_replace, test_category>>
    /\ UNCHANGED <<aggVars, preVars, streamVars, PRODUCTS, boxVars>>

\* lines 307-315: latest_detections = [test_detection], the next category,
\* the release and the sleep
TestReplace ==
    /\ test_pc = "replace"
    /\ latest_detections' = Replace(latest_detections, <<test_category>>)
    /\ last_replace' = <<test_category>>
    /\ test_category' = NextTestCategory(test_category)
    /\ detections_lock' = "free"
    /\ test_pc' = "lock"
    /\ UNCHANGED <<aggVars, preVars, streamVars, PRODUCTS, boxVars>>

\* ------------------------------------------------------------ generate_frames
\* line 107: if not frame_queue.empty()
ViewerPoll(v) ==
    /\ viewer_pc[v] = "poll"
    /\ viewer_pc' = [viewer_pc EXCEPT ![v] =
                        IF frame_queue # <<>> THEN "get" ELSE "sleep"]
    /\ UNCHANGED <<frame_queue, viewer_frame>>
    /\ UNCHANGED <<aggVars, storeVars, preVars, testVars, PRODUCTS, boxVars>>

\* line 108: frame = frame_queue.get(); get waits while the queue is empty
ViewerGet(v) ==
    /\ viewer_pc[v] = "get"
    /\ ~GetWaits(frame_queue)
    /\ viewer_frame' = [viewer_frame EXCEPT ![v] = QueueGetItem(frame_queue)]
    /\ frame_queue' = QueueAfterGet(frame_queue)
    /\ viewer_pc' = [viewer_pc EXCEPT ![v] = "yield"]
    /\ UNCHANGED <<aggVars, storeVars, preVars, testVars, PRODUCTS, boxVars>>

\* lines 109-112: the frame is encoded and yielded to the transport; the
\* local `frame` keeps the frame until the next get
ViewerYield(v) ==
    /\ viewer_pc[v] = "yield"
    /\ viewer_pc' = [viewer_pc EXCEPT ![v] = "poll"]
    /\ UNCHANGED <<frame_queue, viewer_frame>>
    /\ UNCHANGED <<aggVars, storeVars, preVars, testVars, PRODUCTS, boxVars>>

\* line 114: time.sleep(0.01)
ViewerSleep(v) ==
    /\ viewer_pc[v] = "sleep"
    /\ viewer_pc' = [viewer_pc EXCEPT ![v] = "poll"]
    /\ UNCHANGED <<frame_queue, viewer_frame>>
    /\ UNCHANGED <<aggVars, storeVars, preVars, testVars, PRODUCTS, boxVars>>

\* ------------------------------------------------------------ Detection.__init__
\* lines 31-35: a Detection is constructed from coords
DetectionInit ==
    /\ det_pc = "idle"
    /\ \E coords \in CoordInputs : det_coords' = coords
    /\ det_box' = <<>>
    /\ det_pc' = "convert"
    /\ UNCHANGED <<aggVars, storeVars, preVars, testVars, streamVars, PRODUCTS>>

\* lines 36-38: convert_inference_coords returns and the result is clamped
DetectionConvert ==
    /\ det_pc = "convert"
    /\ \E converted \in ConvertedBoxes : det_box' = ClampedBox(converted)
    /\ det_coords' = <<>>
    /\ det_pc' = "done"
    /\ UNCHANGED <<aggVars, storeVars, preVars, testVars, streamVars, PRODUCTS>>

\* lines 36 and 39-42: convert_inference_coords raises and the raw coords
\* are scaled
DetectionFallback ==
    /\ det_pc = "convert"
    /\ det_box' = FallbackBox(det_coords)
    /\ det_coords' = <<>>
    /\ det_pc' = "done"
    /\ UNCHANGED <<aggVars, storeVars, preVars, testVars, streamVars, PRODUCTS>>

\* the constructor returns; the next Detection is constructed
DetectionReturn ==
    /\ det_pc = "done"
    /\ det_pc' = "idle"
    /\ UNCHANGED <<det_coords, det_box>>
    /\ UNCHANGED <<aggVars, storeVars, preVars, testVars, streamVars, PRODUCTS>>

\* ------------------------------------------------------------ specifications
\* The session and aggregation pipeline: the camera thread, the session
\* handlers and the emit_detections thread.
Next ==
    \/ StartSetActive \/ StartReset \/ StopDetection
    \/ EmitReadTime \/ EmitCopy \/ EmitCheckActive \/ EmitFor
    \/ EmitMember \/ EmitInsert \/ EmitCompare \/ EmitIncrement
    \/ EmitBuildActive \/ EmitBuildInactive \/ EmitSend \/ EmitSleep
    \/ PreCallback \/ PreReplace \/ PreDraw \/ PrePut

Spec == Init /\ [][Next]_vars

\* The streaming pipeline: the camera thread and the /video_feed viewers.
StreamPreCallback == PreCallbackBegin(MaxFrames, StreamDetectionLists)

NextStream ==
    \/ StreamPreCallback \/ PreReplace \/ PreDraw \/ PrePut
    \/ \E v \in Viewers :
          ViewerPoll(v) \/ ViewerGet(v) \/ ViewerYield(v) \/ ViewerSleep(v)

SpecStream == Init /\ [][NextStream]_vars

\* The aggregation pipeline with any of the product catalogs loaded.
InitCatalog ==
    /\ InitCommon
    /\ PRODUCTS \in ProductCatalogs

SpecCatalog == InitCatalog /\ [][Next]_vars

\* The detection snapshot store in test mode: its two writers (the camera
\* thread and add_test_detections) and its reader, the emit_detections
\* thread of a session that is never started.
NextStore ==
    \/ PreCallback \/ PreReplace \/ PreDraw \/ PrePut
    \/ TestLock \/ TestReplace
    \/ EmitReadTime \/ EmitCopy \/ EmitCheckActive
    \/ EmitBuildInactive \/ EmitSend \/ EmitSleep

SpecStore == Init /\ [][NextStore]_vars

\* The construction of Detection objects, from the coords of the inference
\* output or of add_test_detections.
NextBox ==
    \/ DetectionInit \/ DetectionConvert \/ DetectionFallback
    \/ DetectionReturn

SpecBox == Init /\ [][NextBox]_vars

\* ------------------------------------------------------------ claims
\* The steps of emit_detections that process one detection of the copy.
MemberStep == emit_pc = "member" /\ emit_pc' # "member"
InsertStep == emit_pc = "insert" /\ emit_pc' # "insert"
CompareStep == emit_pc = "compare" /\ emit_pc' # "compare"
IncrementStep == emit_pc = "incr" /\ emit_pc' # "incr"

Tracked(l) == HasKey(detected_ingredients, l)
Count(l) == Entry(detected_ingredients, l)

\* C1 (dedup law): the first observation of a label creates its entry with
\* quantity 1 and last_update = the tick's time; an observation of a label
\* already tracked, at tick time `now`, raises quantity by exactly 1 and sets
\* last_update to `now` if now - last_update >= 2 seconds, and otherwise
\* leaves the entry, and the whole mapping, unchanged.
C1_DedupLaw ==
    [][ /\ MemberStep =>
             /\ (emit_pc' = "insert") <=> ~Tracked(label)
             /\ (emit_pc' = "compare") <=> Tracked(label)
             /\ UNCHANGED detected_ingredients
        /\ InsertStep /\ ~Tracked(label) =>
             /\ Len(detected_ingredients') = Len(detected_ingredients) + 1
             /\ HasKey(detected_ingredients', label)
             /\ Entry(detected_ingredients', label).quantity = 1
             /\ Entry(detected_ingredients', label).last_update = current_time
        /\ CompareStep /\ Tracked(label) =>
             /\ UNCHANGED detected_ingredients
             /\ IF current_time - Count(label).last_update >= 2
                THEN emit_pc' = "incr"
                ELSE emit_pc' = "for"
        /\ IncrementStep /\ Tracked(label) =>
             /\ Len(detected_ingredients') = Len(detected_ingredients)
             /\ HasKey(detected_ingredients', label)
             /\ Entry(detected_ingredients', label).quantity
                    = Count(label).quantity + 1
             /\ Entry(detected_ingredients', label).last_update = current_time
             /\ current_time - Count(label).last_update >= 2
      ]_vars

\* C1 witness: "apple" was inserted at time 0, observed again before the
\* threshold and incremented by a later tick at time 3: its quantity is 2.
C1_Witness ==
    /\ detection_active
    /\ emit_pc = "for"
    /\ det_idx > 0
    /\ label = "apple"
    /\ current_time = 3
    /\ Tracked("apple")
    /\ Count("apple").quantity = 2
    /\ Count("apple").last_update = 3

\* C2 (freeze on stop): once handle_stop_detection has completed and until
\* handle_start_detection is invoked, the counts mapping never changes,
\* wherever in its tick the aggregation loop was when the stop arrived.
C2_FrozenAfterStop ==
    [][ (~detection_active /\ start_pc = "idle")
            => UNCHANGED detected_ingredients ]_vars

\* The step that completes handle_start_detection.
StartCompletes == start_pc = "reset" /\ start_pc' = "idle"
\* The step that emits a detection_update.
SendStep == emit_pc = "send" /\ emit_pc' = "sleep"

\* C3 (session reset): when handle_start_detection completes the session is
\* Active and the counts mapping is empty, and no broadcast emitted
\* afterwards shows an entry that the counts mapping does not hold (an entry
\* of the previous session).
C3_SessionReset ==
    [][ /\ StartCompletes => detection_active' /\ detected_ingredients' = <<>>
        /\ SendStep =>
              \A i \in 1..Len(data_list) :
                  /\ Tracked(data_list[i].name)
                  /\ Count(data_list[i].name).quantity = data_list[i].quantity
      ]_vars

\* C4 (start is atomic with a per-detection update): a start signal arriving
\* during an aggregation tick never makes the tick fail; the lookups of
\* lines 264-265 never raise KeyError and end the loop.
C4_NoKeyError == emit_error # "KeyError"

\* C5 (category outside the label catalog): a detection whose category is
\* negative or >= the number of labels is dropped: the loop moves on to the
\* next detection of the copy without an error and without touching counts.
C5_OutOfCatalogDropped ==
    [][ ( /\ emit_pc = "for"
          /\ emit_pc' # "for" \/ det_idx' # det_idx
          /\ det_idx < Len(current_detections)
          /\ current_detections[det_idx + 1] \notin 0..(Len(Labels) - 1) )
        => /\ emit_pc' = "for"
           /\ det_idx' = det_idx + 1
           /\ emit_error' = "none"
           /\ UNCHANGED detected_ingredients ]_vars

\* C6 (bounded buffer, drop-newest): the frame queue never holds more than
\* 10 frames; a frame that meets a full queue is discarded and the queue
\* keeps its contents; a frame that is put goes to the tail behind the frames
\* queued before; and the callback never waits in put, also when viewers
\* dequeue between its full() test and its put().
C6_BoundedDropNewest ==
    /\ [](Len(frame_queue) <= 10)
    /\ [](pre_pc = "put" => Len(frame_queue) < 10)
    /\ [][ /\ (pre_pc = "draw" /\ pre_pc' # "draw" /\ Len(frame_queue) = 10)
                => pre_pc' \in {"idle", "raised"} /\ UNCHANGED frame_queue
           /\ (pre_pc = "draw" /\ pre_pc' = "put") => Len(frame_queue) < 10
           /\ (pre_pc = "put" /\ pre_pc' # "put")
                => frame_queue' = frame_queue \o <<frame_no>>
           /\ (pre_pc = pre_pc') =>
                \/ UNCHANGED frame_queue
                \/ frame_queue # <<>> /\ frame_queue' = Tail(frame_queue)
         ]_vars

\* C6 witness: ten frames were queued without a pop and the eleventh met the
\* full queue: the queue still holds exactly the first ten.
C6_Witness ==
    /\ frame_no = 11
    /\ pre_pc = "idle"
    /\ frame_queue = <<1, 2, 3, 4, 5, 6, 7, 8, 9, 10>>

\* C7 (non-blocking poll): no stream consumer ever waits inside the dequeue
\* on an empty queue.
C7_NeverWaitsInGet ==
    \A v \in Viewers : ~(viewer_pc[v] = "get" /\ frame_queue = <<>>)

\* The steps that build the payload, and the step that ends a tick.
BuildStep == emit_pc \in {"build_active", "build_inactive"} /\ emit_pc' = "send"

\* C8 (one broadcast per tick): every tick emits exactly one detection_update,
\* Active or not; the payload has exactly one entry per label currently in
\* counts, in order, with the label's current quantity; and both branches
\* build the same payload from the same counts.
C8_OneBroadcastPerTick ==
    /\ [](emit_pc # "dead")
    /\ [](emit_pc = "sleep" => tick_emits = 1)
    /\ [](DataListActive(detected_ingredients, PRODUCTS)
            = DataListInactive(detected_ingredients, PRODUCTS))
    /\ [][ SendStep =>
              /\ tick_emits = 0
              /\ Len(data_list) = Len(detected_ingredients)
              /\ \A i \in 1..Len(data_list) :
                    /\ data_list[i].name = detected_ingredients[i].name
                    /\ data_list[i].quantity = detected_ingredients[i].quantity
         ]_vars

\* C9 (missing price default): the payload built from counts has, for every
\* label of counts, one entry, whose price is the catalog's price of the
\* label when the catalog has the label with a price and 0 when the label is
\* not in the catalog or its entry has no price.
C9_MissingPriceDefault ==
    [][ BuildStep =>
          /\ Len(data_list') = Len(detected_ingredients)
          /\ \A i \in 1..Len(detected_ingredients) :
                LET name == detected_ingredients[i].name
                IN /\ data_list'[i].name = name
                   /\ (name \in DOMAIN PRODUCTS /\ "price" \in DOMAIN PRODUCTS[name])
                        => data_list'[i].price = PRODUCTS[name].price
                   /\ (name \notin DOMAIN PRODUCTS) => data_list'[i].price = 0
                   /\ (name \in DOMAIN PRODUCTS /\ "price" \notin DOMAIN PRODUCTS[name])
                        => data_list'[i].price = 0
      ]_vars

\* C9 witness: a payload about to be emitted lists "banana", which the
\* catalog does not hold, at price 0 beside "apple" at its catalog price.
C9_Witness ==
    /\ emit_pc = "send"
    /\ "banana" \notin DOMAIN PRODUCTS
    /\ \E i, j \in 1..Len(data_list) :
          /\ data_list[i].name = "banana" /\ data_list[i].price = 0
          /\ data_list[j].name = "apple" /\ data_list[j].price = 50

\* C10 (detection snapshot store): the copy a tick reads is, as a whole, the
\* list written by the most recent replace completed before the read (or the
\* initial empty list), whichever of the two writers wrote it; and a replace
\* after the read leaves the copy as it is.
C10_CopyIsLastReplace ==
    [][ /\ (emit_pc = "copy" /\ emit_pc' = "active")
             => current_detections' = last_replace
        /\ (last_replace' # last_replace \/ latest_detections' # latest_detections)
             => /\ UNCHANGED current_detections
                /\ latest_detections' = last_replace'
      ]_vars

\* C10 witness: the tick holds the copy of the test generator's second
\* write, [category 1]; the generator's first write was overwritten, and the
\* camera thread has replaced the stored list after the read.
C10_Witness ==
    /\ emit_pc = "active"
    /\ current_detections = <<1>>
    /\ test_category = 0
    /\ frame_no = 1
    /\ latest_detections = <<0, 1>>

\* The frames are numbered in the order in which the camera delivers them;
\* the queue holds them in the order in which they were enqueued.
QueueInOrder ==
    \A i, j \in 1..Len(frame_queue) : i < j => frame_queue[i] < frame_queue[j]
\* The steps of viewer v that dequeue a frame and that emit it.
GetStep(v) == viewer_pc[v] = "get" /\ viewer_pc'[v] = "yield"
YieldStep(v) == viewer_pc[v] = "yield" /\ viewer_pc'[v] = "poll"

\* C11 (FIFO streaming, no duplication, no reordering): a dequeue takes the
\* oldest frame of the queue and removes it; the frame is later than every
\* frame any consumer has dequeued before, so no frame reaches two emissions
\* and each consumer emits in enqueue order; a consumer emits exactly the
\* frame it dequeued, once per dequeue.
C11_FifoAtMostOnce ==
    /\ [](QueueInOrder)
    /\ [](\A v \in Viewers : viewer_pc[v] = "yield" => viewer_frame[v] > 0)
    /\ [][ \A v \in Viewers :
             /\ GetStep(v) =>
                  /\ viewer_frame'[v] = Head(frame_queue)
                  /\ frame_queue' = Tail(frame_queue)
                  /\ \A w \in Viewers : viewer_frame'[v] > viewer_frame[w]
                  /\ \A i \in 1..Len(frame_queue') :
                        frame_queue'[i] # viewer_frame'[v]
             /\ (viewer_pc'[v] = "yield" /\ viewer_pc[v] # "yield")
                  => viewer_pc[v] = "get"
             /\ viewer_frame'[v] # viewer_frame[v] => GetStep(v)
             /\ YieldStep(v) => UNCHANGED <<viewer_frame, frame_queue>>
         ]_vars

\* C11 witness: three frames were enqueued and all emitted, frame 3 by
\* viewer 1 and frame 2 by viewer 2, and the queue is empty again.
C11_Witness ==
    /\ frame_no = 3
    /\ frame_queue = <<>>
    /\ viewer_frame[1] = 3
    /\ viewer_frame[2] = 2
    /\ \A v \in Viewers : viewer_pc[v] = "poll"
    /\ pre_pc = "idle"

\* C12 (monotone counts): in every step other than the reset of
\* handle_start_detection, every entry of counts stays and its quantity does
\* not decrease; every entry has quantity >= 1, and so has every entry of
\* a payload built or emitted.
C12_MonotoneWithinSession ==
    /\ [](\A i \in 1..Len(detected_ingredients) :
             detected_ingredients[i].quantity >= 1)
    /\ [](\A i \in 1..Len(data_list) : data_list[i].quantity >= 1)
    /\ [][ ~StartCompletes =>
             \A l \in LabelSet :
                Tracked(l) =>
                   /\ HasKey(detected_ingredients', l)
                   /\ Entry(detected_ingredients', l).quantity >= Count(l).quantity
         ]_vars

\* C12 witness: "apple" went from 1 to 2 to 3 within one session (ticks at
\* 0, 2 and 4 seconds) and the message just emitted carries quantity 3.
C12_Witness ==
    /\ detection_active
    /\ emit_pc = "sleep"
    /\ current_time = 4
    /\ Len(data_list) = 1
    /\ data_list[1].name = "apple" /\ data_list[1].quantity = 3
    /\ Tracked("apple") /\ Count("apple").quantity = 3

\* C13 (an entry iff observed): in every state, counts has an entry for a
\* label if and only if the processing of a detection of that label completed
\* while the session was Active since the last start.
C13_EntryIffObserved ==
    \A l \in LabelSet : Tracked(l) <=> l \in observed

\* The step of line 253 that finds the session Active.
ObservesActive == emit_pc = "active" /\ emit_pc' = "for"

\* C14 (start is atomic for observers): after handle_start_detection has set
\* the session Active, no tick finds the session Active while counts still
\* holds an entry of the previous session, and no such entry is incremented.
C14_StartAtomic ==
    [][ /\ ObservesActive => stale = {}
        /\ (IncrementStep /\ label \in stale) => UNCHANGED detected_ingredients
      ]_vars

\* The detections of the copy that the loop has not reached and that resolve
\* to a label.
Unprocessed ==
    {i \in (det_idx + 1)..Len(current_detections) :
        IndexInRange(current_detections[i])}
\* The step that leaves the loop of lines 255-267.
LeavesLoop == emit_pc = "for" /\ emit_pc' \notin {"for", "member"}

\* C15 (one increment per threshold interval): a tick of an Active session
\* processes every detection of its snapshot that has a label, and does not
\* leave the loop with one of them unprocessed; processing a tracked label
\* increments it exactly when the tick's time is at least 2 seconds after
\* its last_update, and an increment sets last_update to the tick's time, so
\* two consecutive increments are at least 2 seconds apart.
C15_IncrementPerThreshold ==
    [][ /\ LeavesLoop => Unprocessed = {}
        /\ (CompareStep /\ Tracked(label)) =>
              (emit_pc' = "incr"
                  <=> current_time - Count(label).last_update
                         >= weight_update_threshold)
        /\ (IncrementStep /\ detected_ingredients' # detected_ingredients) =>
              /\ current_time - Count(label).last_update >= weight_update_threshold
              /\ Entry(detected_ingredients', label).last_update = current_time
      ]_vars

\* C16 (labels are independent): a step that processes a detection of one
\* label leaves the entry of every other label as it is, and keeps the
\* order of the entries; whether a tracked label is incremented is decided
\* from its own last_update and the tick's time alone.
C16_LabelsIndependent ==
    [][ /\ ~StartCompletes =>
             \A b \in LabelSet :
                (b # label /\ Tracked(b)) =>
                    /\ HasKey(detected_ingredients', b)
                    /\ Entry(detected_ingredients', b) = Count(b)
        /\ (CompareStep /\ Tracked(label)) =>
             LET own == Count(label).last_update
             IN  emit_pc' = IF current_time - own >= 2 THEN "incr" ELSE "for"
      ]_vars

\* C16 witness: in a tick at time 2 with the snapshot [apple, banana], apple
\* has just been incremented to 2 and banana, next in the copy, still has
\* quantity 1 and last_update 0.
C16_Witness ==
    /\ detection_active
    /\ emit_pc = "for"
    /\ current_detections = <<0, 1>>
    /\ det_idx = 1
    /\ label = "apple"
    /\ current_time = 2
    /\ Tracked("apple") /\ Count("apple") = [name |-> "apple", quantity |-> 2, last_update |-> 2]
    /\ Tracked("banana") /\ Count("banana") = [name |-> "banana", quantity |-> 1, last_update |-> 0]

\* C17 (a malformed detection does not abort the frame): whatever the
\* categories of its detections, the callback replaces the stored snapshot
\* with them, never ends with an exception, and goes on to enqueue the frame
\* whenever the queue is not full.
C17_MalformedDoesNotAbort ==
    /\ [](pre_pc # "raised")
    /\ [][ /\ (pre_pc = "replace" /\ pre_pc' # "replace")
                => latest_detections' = pre_detections
           /\ (pre_pc = "draw" /\ pre_pc' # "draw" /\ Len(frame_queue) < 10)
                => pre_pc' = "put"
         ]_vars

\* C18 (box within the frame): the box of every Detection constructed, by
\* the conversion or by the fallback, has four values, x and width within
\* 0..640 and y and height within 0..480.
C18_BoxWithinFrame ==
    det_pc = "done" =>
        /\ Len(det_box) = 4
        /\ \A k \in 1..Len(det_box) :
              /\ det_box[k] >= 0
              /\ det_box[k] <= (IF k \in {1, 3} THEN 640 ELSE 480)

\* C19 (at most one raise per tick): a tick sets or raises the quantity of a
\* label at most once, by an insert at 1 or an increment by 1 that stamps
\* last_update with the tick's time; every further detection of that label
\* in the same tick leaves counts unchanged; the tick's time does not change
\* within the tick.
C19_AtMostOnePerTick ==
    [][ /\ ((InsertStep \/ IncrementStep)
               /\ detected_ingredients' # detected_ingredients) =>
              /\ label \notin raised
              /\ Entry(detected_ingredients', label).last_update = current_time
              /\ Entry(detected_ingredients', label).quantity =
                    IF Tracked(label) THEN Count(label).quantity + 1 ELSE 1
        /\ (CompareStep /\ Tracked(label) /\ label \in raised) =>
              /\ emit_pc' = "for"
              /\ UNCHANGED detected_ingredients
        /\ (MemberStep /\ label \in raised /\ Tracked(label)) => emit_pc' = "compare"
        /\ current_time' # current_time => emit_pc = "time"
      ]_vars

\* C19 witness: a tick at time 2 has processed both detections of the
\* snapshot [apple, apple]: the first raised apple from 1 to 2, the second
\* left it at 2.
C19_Witness ==
    /\ detection_active
    /\ emit_pc = "for"
    /\ current_detections = <<0, 0>>
    /\ det_idx = 2
    /\ current_time = 2
    /\ raised = {"apple"}
    /\ Tracked("apple")
    /\ Count("apple") = [name |-> "apple", quantity |-> 2, last_update |-> 2]

\* A step of the emit_detections thread.
EmitStep == emit_pc' # emit_pc
\* The detections of the copy that resolve to a label.
Labelled ==
    {i \in 1..Len(current_detections) : IndexInRange(current_detections[i])}

\* C20 (the snapshot is not consumed): no step of emit_detections changes
\* the stored list; every tick reads the whole stored list; and a tick
\* whose snapshot holds a detection with a label is followed by a next tick,
\* so that a label of a snapshot that is not replaced is compared against
\* the threshold tick after tick.
C20_SnapshotNotConsumed ==
    [][ /\ EmitStep => UNCHANGED latest_detections
        /\ (emit_pc = "copy" /\ EmitStep) =>
              current_detections' = latest_detections'
        /\ (EmitStep /\ emit_pc' = "dead") => Labelled = {}
      ]_vars

====
